---- MODULE Spec2Model ----
(***************************************************************************)
(* Session / transport management of the Intuition MCP server.            *)
(*                                                                         *)
(* src/index.ts holds two revisions of the HTTP entry point:               *)
(*   build 1 (lines 1-370):   app.post('/mcp') + app.delete('/mcp'), table *)
(*                            `transports` of {transport, lastActivity,    *)
(*                            createdAt};                                  *)
(*   build 2 (lines 372-750): app.all('/mcp'), table transports.streamable.*)
(* Both connect every transport to the ONE shared `server` object.         *)
(*                                                                         *)
(* The MCP SDK objects the handlers call (StreamableHTTPServerTransport,   *)
(* Server/Protocol) are modelled by their contract at the call sites:      *)
(*   - a new transport has sessionId undefined; the id is generated (and   *)
(*     onsessioninitialized called) when it handles an initialize request; *)
(*   - server.connect(t) binds the server's single transport slot to t;    *)
(*   - a transport that closes fires onclose, which unbinds the server;    *)
(*   - the JSON-RPC reply of a request is sent either through the transport*)
(*     that received it or through the transport the server is bound to   *)
(*     when the handler finishes, depending on the SDK build.              *)
(* A handler is split at each `await`: other handlers may run in between.  *)
(*                                                                         *)
(* Specifications:                                                         *)
(*   Spec          the /mcp session table of both builds;                  *)
(*   SseSpec       the legacy /sse and /messages endpoints of build 2;     *)
(*   DispatchSpec  the CallToolRequestSchema handler of the shared server; *)
(*   LifeSpec      mode selection, the listener and the SIGTERM handler;   *)
(*   AtomsSpec     the variables search_atoms sends with its query;        *)
(*   CleanSpec     removeEmptyFields applied to a value;                   *)
(*   MgrSpec       the callers of one MCPClientManager.                    *)
(***************************************************************************)
EXTENDS Integers, Sequences, FiniteSets, TLC

\* ---------------------------------------------------------------- bounds
MaxClock == 1
MaxTransports == 2
MaxInflight == 2
MaxConns == 2
MaxSignals == 2
MaxQueries == 6
MaxLen == 2
MaxCallers == 2
MaxConnects == 2

\* ------------------------------------------------------------- constants
NoSessionId == 0            \* `undefined` mcp-session-id header / transport.sessionId
NoTransport == 0            \* server._transport undefined
InvalidSessionCode == -32001
NoResponse == 0             \* the handler wrote no HTTP response

Builds == {1, 2}
Bodies == {"initialize", "call"}
\* the session tables are plain objects ({}), so table[id] also finds the members
\* every object inherits ('constructor', '__proto__', 'toString', ...): one such id
Inherited == {MaxTransports + 2}
\* ids a client may present: every id the server can issue, one it never issues,
\* and one that names an inherited member
ClientIds == 1..(MaxTransports + 2)
Slots == 1..MaxInflight

VARIABLES
  build,             \* which revision of index.ts runs
  now,               \* the value of the latest Date.now() read
  uuids,             \* number of randomUUID() values drawn by sessionIdGenerator
  tr,                \* the transport objects created so far (index = identity)
  server_transport,  \* the shared server's bound transport (Protocol._transport)
  transports,        \* build 1: sessionId -> {transport, lastActivity, createdAt}
  streamable,        \* build 2: transports.streamable, sessionId -> transport
  inflight,          \* suspended handlers / pending JSON-RPC requests
  terminated,        \* history: ids whose DELETE handler has finished
  last,              \* history: what the most recent step did
  sse,               \* build 2: transports.sse, sessionId -> transport
  call,              \* the tool-call handler: the request it serves and its result
  proc,              \* the process: SERVER_MODE, listener, connections, timers, exit
  fn,                \* a pure function of the operations: its input and its output
  mgr                \* MCPClientManager: its fields and the calls in progress

vars == <<build, now, uuids, tr, server_transport, transports, streamable,
          inflight, terminated, last, sse, call, proc, fn, mgr>>
SliceEnd == 5               \* args.queries.slice(0, 5)

\* ------------------------------------------------------------ data model
Idle == [pc |-> "idle", sid |-> NoSessionId, body |-> "none", t |-> NoTransport,
         err |-> FALSE]

\* new StreamableHTTPServerTransport({...}): no session id until initialize
NewStreamable == [sessionId |-> NoSessionId, initialized |-> FALSE, closed |-> FALSE]

\* What a step did. Set by the step: op, sid, body (the request), fin (the handler
\* returned or rejected in this step), status/text/code/id (the HTTP response it
\* wrote), session (the mcp-session-id it issued), t (the transport the request was
\* handed to), via (the transport a JSON-RPC reply was sent through), closedT (the
\* transport whose close() returned). Computed by Obs from the state before and
\* after: known, owner, after, tableSame, keysSame, bindSame, created, ids, reg, grew.
NoStep == [op |-> "none", sid |-> NoSessionId, body |-> "none", fin |-> FALSE,
           status |-> NoResponse, text |-> "", code |-> 0, id |-> "",
           session |-> NoSessionId, t |-> NoTransport, via |-> NoTransport,
           closedT |-> NoTransport, known |-> FALSE, owner |-> NoTransport,
           after |-> FALSE, tableSame |-> TRUE, keysSame |-> TRUE,
           bindSame |-> TRUE, created |-> 0, ids |-> 0, reg |-> FALSE,
           grew |-> FALSE]

Min(a, b) == IF a <= b THEN a ELSE b

\* Date.now(): the values a read may return when the previous read returned `from`
DateNow(from) == from..Min(from + 1, MaxClock)

Put(f, k, v) == [x \in DOMAIN f \cup {k} |-> IF x = k THEN v ELSE f[x]]
Remove(f, k) == [x \in DOMAIN f \ {k} |-> f[x]]

\* sessionIdGenerator: () => randomUUID(): a value never drawn before
randomUUID == uuids + 1

\* The session table of the running build as sessionId -> transport
Table == IF build = 1
         THEN [k \in DOMAIN transports |-> transports[k].transport]
         ELSE streamable
Keys == DOMAIN Table


\* a request is served by a new invocation of its async handler: the first unused
\* slot holds its position while it is suspended
Free(i) == inflight[i].pc = "idle" /\ \A j \in 1..(i - 1) : inflight[j].pc # "idle"

\* ------------------------------------------------------- SDK contracts
\* transport.handleRequest(req, res, req.body) for a POST with a parsed body
\* (StreamableHTTPServerTransport): what the transport `tp` answers to a request
\* carrying header `hdr` and a body of kind `body`.
\*   init:     the transport generates its session id and calls onsessioninitialized
\*   dispatch: the JSON-RPC request is handed to the server (transport.onmessage)
SdkPost(tp, hdr, body) ==
  IF body = "initialize"
  THEN IF tp.initialized /\ tp.sessionId # NoSessionId
       THEN [status |-> 400, init |-> FALSE, dispatch |-> FALSE]
       ELSE [status |-> 200, init |-> TRUE, dispatch |-> TRUE]
  ELSE IF ~tp.initialized \/ hdr = NoSessionId
       THEN [status |-> 400, init |-> FALSE, dispatch |-> FALSE]
       ELSE IF hdr # tp.sessionId
            THEN [status |-> 404, init |-> FALSE, dispatch |-> FALSE]
            ELSE [status |-> 200, init |-> FALSE, dispatch |-> TRUE]

\* await server.connect(transport): the shared server's transport slot after it
Connect(t) == t

\* the transports through which the shared server may send the reply of a request
\* received on transport t: t itself, or the transport the server is bound to now
ReplyVia(t) == {t, server_transport}

\* history record of a step: r completed with what the step changed
Obs(r) ==
  [r EXCEPT !.known = r.sid \in Keys,
            !.tableSame = (transports' = transports /\ streamable' = streamable),
            !.bindSame = (server_transport' = server_transport),
            !.created = Len(tr') - Len(tr),
            !.ids = uuids' - uuids,
            !.owner = IF r.sid \in Keys THEN Table[r.sid] ELSE NoTransport,
            !.after = r.sid \in Keys',
            !.keysSame = (Keys' = Keys),
            !.reg = (r.session \in Keys' /\ Table'[r.session] = r.t),
            !.grew = /\ r.session \notin Keys
                     /\ Keys' = Keys \cup {r.session}
                     /\ \A k \in Keys : Table'[k] = Table[k]]

\* ------------------------------------------------------ build 1 handlers
\* mutant: the callback stores nothing
onsessioninitialized_skip(table, sessionId, t, t1, t2) == table

\* onsessioninitialized (lines 271-280): lastActivity: Date.now() is read first,
\* createdAt: Date.now() second
onsessioninitialized(table, sessionId, t, t1, t2) ==
  Put(table, sessionId, [transport |-> t, lastActivity |-> t1, createdAt |-> t2])

\* res.status(401).json({jsonrpc, error: {code: -32001, message}, id: null})
InvalidSession(r) ==
  [r EXCEPT !.fin = TRUE, !.status = 401, !.code = InvalidSessionCode,
            !.text = "Invalid session, please reinitialize", !.id = "null"]

\* catch: res.status(500).json({error: 'Failed to handle connection', ...})
FailedToHandle(r) ==
  [r EXCEPT !.fin = TRUE, !.status = 500, !.text = "Failed to handle connection"]

\* mutant: an initialize body starts a new session whatever the header says
IsNewSession_byBody(sessionId, body) ==
  sessionId = NoSessionId \/ body = "initialize"

\* if (!sessionId): the request starts a new session (line 267, line 657)
IsNewSession(sessionId, body) == sessionId = NoSessionId

\* res.status(200).send('Session terminated') (line 328)
SessionTerminated(r) ==
  [r EXCEPT !.fin = TRUE, !.status = 200, !.text = "Session terminated"]

\* the session a request is routed to (line 289: transports[sessionId])
Lookup(table, sessionId) ==
  IF sessionId \in DOMAIN table THEN {sessionId} ELSE {}

\* `if (!session)` (line 290), `transports[sessionId]` as a condition (line 320):
\* table[sessionId] is truthy for an entry and for an inherited member
Has(table, sessionId) ==
  Lookup(table, sessionId) # {} \/ sessionId \in Inherited

\* // Update session activity (line 303)
Touch(table, sessionId, t) == [table EXCEPT ![sessionId].lastActivity = t]

\* app.post('/mcp') up to its first await (lines 255-304)
PostMcp(i, sessionId, body, throws) ==
  LET req == [NoStep EXCEPT !.op = "POST", !.sid = sessionId, !.body = body] IN
  /\ build = 1
  /\ UNCHANGED <<sse, call, proc, fn, mgr>>
  /\ Free(i)
  /\ IF IsNewSession(sessionId, body)
     THEN \* new transport, await server.connect(transport)
          /\ ~throws
          /\ Len(tr) < MaxTransports
          /\ tr' = Append(tr, NewStreamable)
          /\ server_transport' = Connect(Len(tr) + 1)
          /\ inflight' = [inflight EXCEPT ![i] =
                 [pc |-> "connect", sid |-> sessionId, body |-> body,
                  t |-> Len(tr) + 1, err |-> FALSE]]
          /\ UNCHANGED <<build, now, uuids, transports, streamable, terminated>>
          /\ last' = Obs([req EXCEPT !.t = Len(tr) + 1])
     ELSE IF ~Has(transports, sessionId)
     THEN /\ ~throws
          /\ UNCHANGED <<build, now, uuids, tr, server_transport, transports,
                         streamable, inflight, terminated>>
          /\ last' = Obs(InvalidSession(req))
     ELSE IF Lookup(transports, sessionId) = {}
     THEN \* `session` is an inherited member: line 303 stores lastActivity on it,
          \* session.transport is undefined and line 304 throws a TypeError
          /\ throws
          /\ now' \in DateNow(now)
          /\ UNCHANGED <<build, uuids, tr, server_transport, transports,
                         streamable, inflight, terminated>>
          /\ last' = Obs(FailedToHandle(req))
     ELSE LET t == transports[sessionId].transport
              r == SdkPost(tr[t], sessionId, body)
          IN /\ \E c \in DateNow(now) :
                  /\ transports' = Touch(transports, sessionId, c)
                  /\ now' = c
             /\ UNCHANGED <<build, server_transport, streamable, terminated>>
             /\ IF throws
                THEN /\ UNCHANGED <<tr, uuids, inflight>>
                     /\ last' = Obs(FailedToHandle([req EXCEPT !.t = t]))
                ELSE /\ tr' = IF r.init
                              THEN [tr EXCEPT ![t].sessionId = randomUUID,
                                              ![t].initialized = TRUE]
                              ELSE tr
                     /\ uuids' = IF r.init THEN uuids + 1 ELSE uuids
                     /\ inflight' = IF r.dispatch
                                    THEN [inflight EXCEPT ![i] =
                                            [pc |-> "call", sid |-> sessionId,
                                             body |-> body, t |-> t, err |-> FALSE]]
                                    ELSE inflight
                     /\ last' = Obs([req EXCEPT !.fin = TRUE, !.status = r.status,
                                                !.t = t])

\* new-session branch after server.connect:
\* await transport.handleRequest(req, res, req.body) (lines 284-285, catch 305-314;
\* build 2: line 664, catch 683-691, where the transport was given no callback)
HandleNew(i, throws) ==
  LET t == inflight[i].t
      body == inflight[i].body
      r == SdkPost(tr[t], NoSessionId, body)
      req == [NoStep EXCEPT !.op = "POST", !.sid = NoSessionId, !.body = body,
                            !.t = t]
  IN
  /\ inflight[i].pc = "connect"
  /\ UNCHANGED <<sse, call, proc, fn, mgr>>
  /\ IF throws
     THEN /\ inflight' = [inflight EXCEPT ![i] = Idle]
          /\ UNCHANGED <<build, now, uuids, tr, server_transport, transports,
                         streamable, terminated>>
          /\ last' = Obs(FailedToHandle(req))
     ELSE IF r.init
     THEN \E t1 \in IF build = 1 THEN DateNow(now) ELSE {now} :
          \E t2 \in IF build = 1 THEN DateNow(t1) ELSE {now} :
          /\ tr' = [tr EXCEPT ![t].sessionId = randomUUID, ![t].initialized = TRUE]
          /\ uuids' = uuids + 1
          /\ transports' = IF build = 1
                            THEN onsessioninitialized(transports, randomUUID, t, t1, t2)
                            ELSE transports
          /\ now' = t2
          /\ inflight' = [inflight EXCEPT ![i] =
                 [pc |-> "call", sid |-> NoSessionId, body |-> body, t |-> t,
                  err |-> FALSE]]
          /\ UNCHANGED <<build, server_transport, streamable, terminated>>
          /\ last' = Obs([req EXCEPT !.fin = TRUE, !.status = r.status,
                                     !.session = randomUUID])
     ELSE /\ inflight' = [inflight EXCEPT ![i] = Idle]
          /\ UNCHANGED <<build, now, uuids, tr, server_transport, transports,
                         streamable, terminated>>
          /\ last' = Obs([req EXCEPT !.fin = TRUE, !.status = r.status])

\* mutant: a pending request is dropped once its session has left the table
Completes_ifLive(c) == c.pc = "call" /\ c.sid \in Keys

\* a dispatched request handler (lines 134-225) runs to its return whatever has
\* happened to the session table: it reads neither `transports` nor the transport
Completes(c) == c.pc = "call"

\* the shared server finishes the request handler of a dispatched JSON-RPC request
\* and sends its result (server object of line 119, bound at line 283)
Reply(i) ==
  /\ Completes(inflight[i])
  /\ UNCHANGED <<sse, call, proc, fn, mgr>>
  /\ inflight' = [inflight EXCEPT ![i] = Idle]
  /\ UNCHANGED <<build, now, uuids, tr, server_transport, transports, streamable,
                 terminated>>
  /\ \E via \in ReplyVia(inflight[i].t) :
       last' = Obs([NoStep EXCEPT !.op = "reply", !.sid = inflight[i].sid,
                                  !.body = inflight[i].body, !.fin = TRUE,
                                  !.t = inflight[i].t, !.via = via])


\* transport.close() of the SDK transport: the transport objects after it
Close(t) == [tr EXCEPT ![t].closed = TRUE]

\* transport.onclose, set by server.connect: the server's transport slot after it
OnClose(t) == NoTransport

\* mutant: the entry is not deleted
Finally_keep(table, sessionId) == table

\* finally { delete transports[sessionId] } (line 325)
Finally(table, sessionId) == Remove(table, sessionId)

\* app.delete('/mcp') up to `await transport.transport.close()` (lines 318-323);
\* ok: close() returns, ~ok: close() throws
DeleteMcp(i, sessionId, ok) ==
  LET req == [NoStep EXCEPT !.op = "DELETE", !.sid = sessionId] IN
  /\ build = 1
  /\ UNCHANGED <<sse, call, proc, fn, mgr>>
  /\ Free(i)
  /\ IF sessionId # NoSessionId /\ Has(transports, sessionId)
          /\ Lookup(transports, sessionId) = {}
     THEN \* `transport` is an inherited member: transport.transport is undefined,
          \* line 323 throws a TypeError, the finally block deletes nothing and the
          \* handler rejects
          /\ ~ok
          /\ transports' = Finally(transports, sessionId)
          /\ UNCHANGED <<build, now, uuids, tr, server_transport, streamable,
                         inflight, terminated>>
          /\ \E st \in {NoResponse, 500} :
               last' = Obs([req EXCEPT !.fin = TRUE, !.status = st,
                              !.text = IF st = 500 THEN "Internal server error" ELSE ""])
     ELSE IF sessionId # NoSessionId /\ Has(transports, sessionId)
     THEN LET t == transports[sessionId].transport IN
          /\ tr' = IF ok THEN Close(t) ELSE tr
          /\ server_transport' = IF ok THEN OnClose(t) ELSE server_transport
          /\ inflight' = [inflight EXCEPT ![i] =
                 [pc |-> "close", sid |-> sessionId, body |-> "none", t |-> t,
                  err |-> ~ok]]
          /\ UNCHANGED <<build, now, uuids, transports, streamable, terminated>>
          /\ last' = Obs([req EXCEPT !.t = t,
                                     !.closedT = IF ok THEN t ELSE NoTransport])
     ELSE /\ ok
          /\ UNCHANGED <<build, now, uuids, tr, server_transport, transports,
                         streamable, inflight, terminated>>
          /\ last' = Obs(SessionTerminated(req))

\* app.delete('/mcp') after the await (lines 324-328). When close() threw, the
\* async handler rejects after the finally block: the response is the error
\* middleware's 500 (lines 332-335) if the framework forwards rejections to it,
\* and none otherwise.
DeleteMcpDone(i) ==
  LET sessionId == inflight[i].sid
      req == [NoStep EXCEPT !.op = "DELETE", !.sid = sessionId, !.fin = TRUE,
                            !.t = inflight[i].t,
                            !.closedT = IF inflight[i].err THEN NoTransport
                                        ELSE inflight[i].t]
  IN
  /\ build = 1
  /\ UNCHANGED <<sse, call, proc, fn, mgr>>
  /\ inflight[i].pc = "close"
  /\ transports' = Finally(transports, sessionId)
  /\ terminated' = terminated \cup {sessionId}
  /\ inflight' = [inflight EXCEPT ![i] = Idle]
  /\ UNCHANGED <<build, now, uuids, tr, server_transport, streamable>>
  /\ IF inflight[i].err
     THEN \E st \in {NoResponse, 500} :
            last' = Obs([req EXCEPT !.status = st,
                           !.text = IF st = 500 THEN "Internal server error" ELSE ""])
     ELSE last' = Obs(SessionTerminated(req))

\* a connected transport closes by itself (the SDK closes it, e.g. the connection
\* drops): its onclose fires. index.ts registers no close callback of its own
\* (lines 269-281), so nothing else changes.
TransportClose(t) ==
  /\ t \in 1..Len(tr)
  /\ ~tr[t].closed
  /\ UNCHANGED <<sse, call, proc, fn, mgr>>
  /\ build = 1
  /\ tr' = Close(t)
  /\ server_transport' = OnClose(t)
  /\ UNCHANGED <<build, now, uuids, transports, streamable, inflight, terminated>>
  /\ last' = Obs([NoStep EXCEPT !.op = "close", !.t = t, !.closedT = t, !.fin = TRUE])

\* ------------------------------------------------------ build 2 handlers
Methods == {"POST", "GET", "DELETE"}

\* app.all('/mcp') (lines 653-692)
AllMcp(i, method, sessionId, body, throws) ==
  LET req == [NoStep EXCEPT !.op = method, !.sid = sessionId, !.body = body] IN
  /\ build = 2
  /\ UNCHANGED <<sse, call, proc, fn, mgr>>
  /\ Free(i)
  /\ IF IsNewSession(sessionId, body)
     THEN \* lines 657-667
          LET t == Len(tr) + 1
              transport == NewStreamable
          IN /\ ~throws
             /\ Len(tr) < MaxTransports
             /\ tr' = Append(tr, transport)
             /\ IF transport.sessionId # NoSessionId
                THEN /\ streamable' = Put(streamable, transport.sessionId, t)
                     /\ server_transport' = Connect(t)
                     /\ inflight' = [inflight EXCEPT ![i] =
                            [pc |-> "connect", sid |-> sessionId, body |-> body,
                             t |-> t, err |-> FALSE]]
                     /\ UNCHANGED <<build, now, uuids, transports, terminated>>
                     /\ last' = Obs([req EXCEPT !.t = t])
                ELSE /\ UNCHANGED <<build, now, uuids, server_transport, transports,
                                    streamable, inflight, terminated>>
                     /\ last' = Obs([req EXCEPT !.fin = TRUE])
     ELSE IF ~Has(streamable, sessionId)
     THEN /\ ~throws
          /\ UNCHANGED <<build, now, uuids, tr, server_transport, transports,
                         streamable, inflight, terminated>>
          /\ last' = Obs(InvalidSession(req))
     ELSE IF Lookup(streamable, sessionId) = {}
     THEN \* `transport` is an inherited member: transport.handleRequest is not a
          \* function, line 682 throws a TypeError
          /\ throws
          /\ UNCHANGED <<build, now, uuids, tr, server_transport, transports,
                         streamable, inflight, terminated>>
          /\ last' = Obs(FailedToHandle(req))
     ELSE \* line 682: the SDK transport serves POST, GET and DELETE itself
          LET t == streamable[sessionId]
              r == IF method = "POST" THEN SdkPost(tr[t], sessionId, body)
                   ELSE [status |-> 200, init |-> FALSE, dispatch |-> FALSE]
          IN /\ UNCHANGED <<build, now, transports, streamable, terminated>>
             /\ IF throws
                THEN /\ UNCHANGED <<tr, uuids, inflight, server_transport>>
                     /\ last' = Obs(FailedToHandle([req EXCEPT !.t = t]))
                ELSE /\ tr' = IF method = "DELETE" THEN Close(t) ELSE tr
                     /\ server_transport' = IF method = "DELETE" THEN OnClose(t)
                                            ELSE server_transport
                     /\ uuids' = uuids
                     /\ inflight' = IF r.dispatch
                                    THEN [inflight EXCEPT ![i] =
                                            [pc |-> "call", sid |-> sessionId,
                                             body |-> body, t |-> t, err |-> FALSE]]
                                    ELSE inflight
                     /\ last' = Obs([req EXCEPT !.fin = TRUE, !.status = r.status,
                                                !.t = t])

\* ------------------------------------------ build 2: legacy SSE endpoints
\* new SSEServerTransport('/messages', res): its session id exists from construction
NewSse(sessionId) == [sessionId |-> sessionId, initialized |-> FALSE, closed |-> FALSE]

\* history record of a step on transports.sse
ObsSse(r) ==
  [r EXCEPT !.known = r.sid \in DOMAIN sse,
            !.tableSame = (sse' = sse),
            !.bindSame = (server_transport' = server_transport),
            !.created = Len(tr') - Len(tr),
            !.ids = uuids' - uuids,
            !.owner = IF r.sid \in DOMAIN sse THEN sse[r.sid] ELSE NoTransport,
            !.after = r.sid \in DOMAIN sse',
            !.keysSame = (DOMAIN sse' = DOMAIN sse),
            !.reg = (r.session \in DOMAIN sse' /\ sse'[r.session] = r.t),
            !.grew = /\ r.session \notin DOMAIN sse
                     /\ DOMAIN sse' = DOMAIN sse \cup {r.session}
                     /\ \A k \in DOMAIN sse : sse'[k] = sse[k]]

\* the handler rejected: the framework answers 500 or leaves the request unanswered
Rejected(r) ==
  {[r EXCEPT !.fin = TRUE, !.status = st] : st \in {NoResponse, 500}}

\* app.get('/sse') (lines 695-704); throws: server.connect(transport) rejects
GetSse(throws) ==
  LET t == Len(tr) + 1
      sessionId == randomUUID
      req == [NoStep EXCEPT !.op = "GET /sse", !.session = sessionId, !.t = t]
  IN
  /\ build = 2
  /\ Len(tr) < MaxTransports
  /\ tr' = Append(tr, NewSse(sessionId))
  /\ uuids' = uuids + 1
  /\ sse' = Put(sse, sessionId, t)
  /\ server_transport' = IF throws THEN server_transport ELSE Connect(t)
  /\ UNCHANGED <<build, now, transports, streamable, inflight, terminated, call, proc, fn, mgr>>
  /\ IF throws
     THEN \E r \in Rejected(req) : last' = ObsSse(r)
     ELSE last' = ObsSse([req EXCEPT !.status = 200])

\* res.on('close', ...) (lines 699-701): the connection of transport t ends
ResClose(t) ==
  /\ build = 2
  /\ t \in 1..Len(tr)
  /\ ~tr[t].closed
  /\ sse' = Remove(sse, tr[t].sessionId)
  /\ tr' = Close(t)
  /\ server_transport' = OnClose(t)
  /\ UNCHANGED <<build, now, uuids, transports, streamable, inflight, terminated,
                 call, proc, fn, mgr>>
  /\ last' = ObsSse([NoStep EXCEPT !.op = "close", !.sid = tr[t].sessionId, !.t = t,
                                   !.closedT = t, !.fin = TRUE])

\* res.status(400).send('No transport found for sessionId') (line 713)
NoTransportFound(r) ==
  [r EXCEPT !.fin = TRUE, !.status = 400, !.text = "No transport found for sessionId"]

\* app.post('/messages') (lines 707-715); sessionId is req.query.sessionId;
\* throws: transport.handlePostMessage rejects. The SDK transport answers 202 and
\* hands the message to the server.
PostMessages(i, sessionId, throws) ==
  LET req == [NoStep EXCEPT !.op = "POST /messages", !.sid = sessionId,
                            !.body = "call"]
  IN
  /\ build = 2
  /\ Free(i)
  /\ UNCHANGED <<build, now, uuids, tr, server_transport, transports, streamable,
                 terminated, sse, call, proc, fn, mgr>>
  /\ IF ~Has(sse, sessionId)
     THEN /\ ~throws
          /\ UNCHANGED inflight
          /\ last' = ObsSse(NoTransportFound(req))
     ELSE IF Lookup(sse, sessionId) = {}
     THEN \* `transport` is an inherited member: transport.handlePostMessage is not
          \* a function, line 711 throws a TypeError and the handler rejects
          /\ throws
          /\ UNCHANGED inflight
          /\ \E r \in Rejected(req) : last' = ObsSse(r)
     ELSE LET t == sse[sessionId] IN
          IF throws
          THEN /\ UNCHANGED inflight
               /\ \E r \in Rejected([req EXCEPT !.t = t]) : last' = ObsSse(r)
          ELSE /\ inflight' = [inflight EXCEPT ![i] =
                      [pc |-> "call", sid |-> sessionId, body |-> "call", t |-> t,
                       err |-> FALSE]]
               /\ last' = ObsSse([req EXCEPT !.fin = TRUE, !.status = 202, !.t = t])

\* ------------------------------------------------------ tool-call handler
\* the case labels of the switch (lines 154-206; lines 540-610)
Tools1 == {"extract_triples", "search_atoms", "get_account_info", "search_lists",
           "get_following", "get_followers", "search_account_ids"}
Tools2 == Tools1 \cup {"get_outgoing_edges", "get_triples_by_ids",
                       "get_triples_with_positions"}
Cases == IF build = 1 THEN Tools1 ELSE Tools2

\* mutant: the last tool of the registry is not listed
TOOLS_short ==
  IF build = 1
  THEN <<"extract_triples", "search_atoms", "get_account_info", "search_lists",
         "get_following", "get_followers">>
  ELSE <<"extract_triples", "search_atoms", "get_account_info", "search_lists",
         "get_following", "get_followers", "get_outgoing_edges",
         "search_account_ids", "get_triples_by_ids">>

\* const TOOLS = [...] as const: the names of its entries (lines 45-81; 417-468)
TOOLS ==
  IF build = 1
  THEN <<"extract_triples", "search_atoms", "get_account_info", "search_lists",
         "get_following", "get_followers", "search_account_ids">>
  ELSE <<"extract_triples", "search_atoms", "get_account_info", "search_lists",
         "get_following", "get_followers", "get_outgoing_edges",
         "search_account_ids", "get_triples_by_ids", "get_triples_with_positions">>

\* request.params.name: every label, and a name that is no label in either build
ToolNames == Tools2 \cup {"no_such_tool"}

\* the cases that return `await <operation>.execute(args)`
Operations == Tools2 \ {"extract_triples"}

\* imported modules whose source is not part of the repository files:
\* ./operations/triples.js and ./operations/search-account-ids.js
Unlisted == {"extract_triples", "search_account_ids"}

\* request.params.arguments: undefined, {}, an object that violates the schema, an
\* object that satisfies it, and one that satisfies it and has an unknown key
ArgKinds == {"absent", "empty", "invalid", "valid", "extra"}

\* what the remote GraphQL call of an operation does: returns rows, returns nothing,
\* rejects with an Error, rejects with a value that is no Error
RemoteOutcomes == {"data", "none", "Error", "reason"}

\* thrown values: `instance` is `error instanceof Error`, `message` is error.message
\* (String(error) when it is no Error)
Error(message) == [instance |-> TRUE, message |-> message]
NoError == [instance |-> FALSE, message |-> <<>>]
ZodError == Error(<<"ZodError.message">>)
ApiError == Error(<<"error.message">>)
ApiReason == [instance |-> FALSE, message |-> <<"String(error)">>]

\* content items; a text is the sequence of the pieces its template concatenates
Text(t) == [type |-> "text", text |-> t, data |-> FALSE]
Resource(uri) == [type |-> "resource", text |-> <<uri>>, data |-> FALSE]

NoResult == [meta |-> FALSE, isError |-> "unset", content |-> <<>>]
Result(isError, content) == [meta |-> FALSE, isError |-> isError, content |-> content]

\* mutant: every arguments value passes the schema
parse_lenient(name, raw) == {[ok |-> TRUE, value |-> raw]}

\* <schema>.parse(request.params.arguments): z.object(...) returns the known keys
\* only, and throws a ZodError when a constraint fails. Every schema in the
\* repository files has a required field; the two unlisted ones may accept {}.
ZodOk(v) == [ok |-> TRUE, value |-> v]
ZodFail == [ok |-> FALSE, value |-> "none"]
parse(name, raw) ==
  CASE raw \in {"valid", "extra"} -> {ZodOk("valid")}
    [] raw = "empty" -> IF name \in Unlisted THEN {ZodOk("empty"), ZodFail}
                        ELSE {ZodFail}
    [] OTHER -> {ZodFail}

\* mutant: the handler passes request.params.arguments instead of the parse result
Arguments_raw(raw, parsed) == raw

\* `const args = <schema>.parse(request.params.arguments)`, then execute(args)
Arguments(raw, parsed) == parsed

\* completion of an operation's execute: a returned CallToolResult or a thrown value
Returned(r) == [threw |-> FALSE, result |-> r, error |-> NoError]
Threw(e) == [threw |-> TRUE, result |-> NoResult, error |-> e]
NoCompletion == Returned(NoResult)

\* the catch block of an operation other than search_lists
\* (get-followers.ts 286-298, 534-546; get-triples-by-id.ts 79-90; ...)
OperationCatch(e) == Result("unset", <<Text(<<"Error: ">> \o e.message)>>)

\* searchListsOperation.execute (search-lists.ts 46-138)
searchLists(outcome) ==
  CASE outcome = "data" ->
         Result("false", <<Resource("search_lists")>>)
    [] outcome = "none" ->
         Result("false", <<Text(<<"No lists found matching your search criteria.">>)>>)
    [] outcome = "Error" ->
         Result("true", <<Text(<<"Operation Error: ", "error.message">>),
                          Text(<<"Details: ", "error.stack">>)>>)
    [] OTHER ->
         Result("true", <<Text(<<"Unknown Error: ", "String(error)">>)>>)

\* <operation>.execute(args): the completions it can have for a remote outcome
execute(name, outcome) ==
  IF name = "search_lists" THEN {Returned(searchLists(outcome))}
  ELSE IF name \in Unlisted
  THEN IF outcome \in {"data", "none"}
       THEN {Returned(Result("unset", <<Resource(name)>>))}
       ELSE LET e == IF outcome = "Error" THEN ApiError ELSE ApiReason
            IN {Threw(e), Returned(OperationCatch(e))}
  ELSE IF outcome = "Error" THEN {Returned(OperationCatch(ApiError))}
  ELSE IF outcome = "reason" THEN {Returned(OperationCatch(ApiReason))}
  ELSE IF name = "get_account_info" /\ outcome = "none"
  THEN {Returned(Result("unset", <<Text(<<"Je n'ai trouve aucun compte">>)>>))}
  ELSE {Returned(Result("unset", <<Resource(name)>>))}

\* the extract_triples case wraps the value it awaited (lines 159-169)
Extracted ==
  [meta |-> TRUE, isError |-> "unset",
   content |-> <<[type |-> "text", text |-> <<"Extracted triples">>, data |-> TRUE]>>]

\* mutant: the catch block lets the exception go on to the transport
Catch_rethrow(error) == [pc |-> "threw", result |-> NoResult]

\* catch (error) { return {_meta: {}, content: [{type: 'text', text: `Error: ${...}`}]} }
\* (lines 210-223)
Catch(error) ==
  [pc |-> "returned",
   result |-> [meta |-> TRUE, isError |-> "unset",
               content |-> <<Text(<<"Error: ">> \o error.message)>>]]

\* mutant: the message does not name the tool
UnknownTool_anon(name) == <<"Unknown tool">>

\* `Unknown tool: ${request.params.name}` (line 208)
UnknownTool(name) == <<"Unknown tool: ", name>>

\* the handler's view of one request: pc (idle, executing = suspended on execute,
\* returned, threw), the request (name, raw), what parse did (parses, zod,
\* validated), what execute got and did (executes, passed, handler), the result;
\* lists: the values the list-tools handler has returned so far
NoCall == [pc |-> "idle", name |-> "", raw |-> "absent", parses |-> 0, zod |-> FALSE,
           validated |-> "none", executes |-> 0, passed |-> "none",
           handler |-> NoCompletion, result |-> NoResult, lists |-> {}]

\* ListToolsRequestSchema handler: return { tools: TOOLS } (lines 134-141; 520-527)
ListTools ==
  /\ call' = [call EXCEPT !.lists = @ \cup {TOOLS}]
  /\ UNCHANGED <<build, now, uuids, tr, server_transport, transports, streamable,
                 inflight, terminated, last, sse, proc, fn, mgr>>

Done(c, completion) ==
  [c EXCEPT !.pc = completion.pc, !.result = completion.result]

\* CallToolRequestSchema handler up to `await <operation>.execute(args)`
\* (lines 143-209)
CallTool(name, raw) ==
  LET req == [NoCall EXCEPT !.name = name, !.raw = raw, !.lists = call.lists] IN
  /\ call.pc # "executing"
  /\ UNCHANGED <<build, now, uuids, tr, server_transport, transports, streamable,
                 inflight, terminated, last, sse, proc, fn, mgr>>
  /\ IF raw = "absent"
     THEN call' = Done(req, Catch(Error(<<"Arguments are required">>)))
     ELSE IF name \notin Cases
     THEN call' = Done(req, Catch(Error(UnknownTool(name))))
     ELSE \E z \in parse(name, raw) :
            call' = IF z.ok
                    THEN [req EXCEPT !.pc = "executing", !.parses = 1,
                                     !.validated = z.value, !.executes = 1,
                                     !.passed = Arguments(raw, z.value)]
                    ELSE Done([req EXCEPT !.parses = 1, !.zod = TRUE], Catch(ZodError))

\* the awaited execute settles: `return await ...` or the catch block
\* (lines 159-209, 210-223)
ExecuteDone(outcome) ==
  /\ call.pc = "executing"
  /\ UNCHANGED <<build, now, uuids, tr, server_transport, transports, streamable,
                 inflight, terminated, last, sse, proc, fn, mgr>>
  /\ \E h \in execute(call.name, outcome) :
       call' = IF h.threw
               THEN Done([call EXCEPT !.handler = h], Catch(h.error))
               ELSE Done([call EXCEPT !.handler = h],
                         [pc |-> "returned",
                          result |-> IF call.name = "extract_triples" THEN Extracted
                                     ELSE h.result])

\* ------------------------------------------------- start-up and shutdown
\* process.env.SERVER_MODE: not set, empty, and some values
EnvValues == {"unset", "", "http", "stdio", "HTTP", "sse"}

\* mutant: the HTTP server is the default
ServerMode_http(env) == IF env \in {"unset", ""} THEN "http" ELSE env

\* const serverMode = process.env.SERVER_MODE || 'stdio' (line 358, line 738)
ServerMode(env) == IF env \in {"unset", ""} THEN "stdio" ELSE env

Conns == 1..MaxConns

\* the process: env (SERVER_MODE), mode ("none" until the module body has run),
\* http (the listener: off, listening, closing, closed), stdio (the stdio transport
\* is started), conns (the listener's connections: none, idle, busy = serving a
\* request), sigterms (SIGTERMs handled), timers (armed force-close timers), fired
\* (a force-close timer has fired), exit ("running", or how the process ended)
Process(env) ==
  [env |-> env, mode |-> "none", http |-> "off", stdio |-> FALSE,
   conns |-> [c \in Conns |-> "none"], sigterms |-> 0, timers |-> 0,
   fired |-> FALSE, exit |-> "running"]

\* the module body (lines 357-370, 737-750): runHttpServer() or runStdioServer()
Started(p) ==
  LET serverMode == ServerMode(p.env) IN
  IF serverMode = "http"
  THEN [p EXCEPT !.mode = serverMode, !.http = "listening"]
  ELSE [p EXCEPT !.mode = serverMode, !.stdio = TRUE]

\* the process while it serves HTTP requests
Serving == Started(Process("http"))

Boot ==
  /\ proc.mode = "none"
  /\ proc' = Started(proc)
  /\ UNCHANGED <<build, now, uuids, tr, server_transport, transports, streamable,
                 inflight, terminated, last, sse, call, fn, mgr>>

\* the listener accepts a connection (app.listen, line 337, line 717)
Accept(c) ==
  /\ proc.exit = "running"
  /\ proc.http = "listening"
  /\ proc.conns[c] = "none"
  /\ proc' = [proc EXCEPT !.conns[c] = "idle"]
  /\ UNCHANGED <<build, now, uuids, tr, server_transport, transports, streamable,
                 inflight, terminated, last, sse, call, fn, mgr>>

\* a request arrives on an open connection / its response ends
Request(c) ==
  /\ proc.exit = "running"
  /\ proc.conns[c] = "idle"
  /\ proc' = [proc EXCEPT !.conns[c] = "busy"]
  /\ UNCHANGED <<build, now, uuids, tr, server_transport, transports, streamable,
                 inflight, terminated, last, sse, call, fn, mgr>>

Respond(c) ==
  /\ proc.exit = "running"
  /\ proc.conns[c] = "busy"
  /\ proc' = [proc EXCEPT !.conns[c] = "idle"]
  /\ UNCHANGED <<build, now, uuids, tr, server_transport, transports, streamable,
                 inflight, terminated, last, sse, call, fn, mgr>>

\* the peer, or the keep-alive timeout, ends a connection
Disconnect(c) ==
  /\ proc.exit = "running"
  /\ proc.conns[c] # "none"
  /\ proc' = [proc EXCEPT !.conns[c] = "none"]
  /\ UNCHANGED <<build, now, uuids, tr, server_transport, transports, streamable,
                 inflight, terminated, last, sse, call, fn, mgr>>

\* httpServer.close(callback): the listener stops accepting; depending on the Node
\* version its idle connections are closed at once (closeIdle) or left open
HttpServerClose(p, closeIdle) ==
  [p EXCEPT !.http = IF p.http = "listening" THEN "closing" ELSE p.http,
            !.conns = [c \in Conns |->
                         IF closeIdle /\ p.conns[c] = "idle" THEN "none"
                         ELSE p.conns[c]]]

\* process.on('SIGTERM', ...) (lines 342-354, 722-734): close the listener, arm the
\* 10 s timer. runStdioServer installs no handler: the signal ends the process.
Sigterm(closeIdle) ==
  /\ proc.exit = "running"
  /\ proc.mode # "none"
  /\ proc.sigterms < MaxSignals
  /\ proc' = IF proc.mode = "http"
             THEN [HttpServerClose(proc, closeIdle) EXCEPT
                     !.sigterms = proc.sigterms + 1, !.timers = proc.timers + 1]
             ELSE [proc EXCEPT !.sigterms = proc.sigterms + 1, !.exit = "SIGTERM"]
  /\ closeIdle \/ proc.mode = "http"
  /\ UNCHANGED <<build, now, uuids, tr, server_transport, transports, streamable,
                 inflight, terminated, last, sse, call, fn, mgr>>

\* the listener's 'close' event, once it is closing and its last connection has
\* ended: the callback of httpServer.close runs process.exit(0) (lines 344-347)
ListenerClosed ==
  /\ proc.exit = "running"
  /\ proc.http = "closing"
  /\ \A c \in Conns : proc.conns[c] = "none"
  /\ proc' = [proc EXCEPT !.http = "closed", !.exit = "0"]
  /\ UNCHANGED <<build, now, uuids, tr, server_transport, transports, streamable,
                 inflight, terminated, last, sse, call, fn, mgr>>

\* mutant: the timer callback only logs
ForceExit_logs(p) == [p EXCEPT !.fired = TRUE]

\* setTimeout(() => { ...; process.exit(1) }, 10000) (lines 350-353)
ForceExit(p) == [p EXCEPT !.fired = TRUE, !.exit = "1"]

\* an armed timer fires, 10 s after its SIGTERM
TimerFires ==
  /\ proc.exit = "running"
  /\ proc.timers > 0
  /\ proc' = ForceExit(proc)
  /\ UNCHANGED <<build, now, uuids, tr, server_transport, transports, streamable,
                 inflight, terminated, last, sse, call, fn, mgr>>

\* ------------------------------------ search_atoms: the query's variables
\* (src/operations/get-followers.ts, second file: SEARCH_ATOMS and
\*  atomSearchOperation.execute)
QueryWords == {"eth", "dao"}

NoFn == [op |-> "none"]

\* the name `like<index>Str`
Like(index) == [prefix |-> "like", index |-> index, suffix |-> "Str"]

\* args.queries.slice(0, end)
Slice(queries, end) == SubSeq(queries, 1, Min(Len(queries), end))

\* SEARCH_ATOMS(params): the query declares $like<index>Str: String! for each
\* param, index counted from 0
SEARCH_ATOMS(params) == {Like(index - 1) : index \in 1..Len(params)}

\* the loop over args.queries that fills `vars`
Vars(queries) ==
  [name \in {Like(i - 1) : i \in 1..Len(queries)} |-> <<"%", queries[name.index + 1]>>]

\* the schema: queries is an array with at least one non-empty string
SearchArgs ==
  UNION {[1..n -> QueryWords] : n \in 1..MaxQueries}

AtomSearch ==
  /\ fn.op = "search_atoms"
  /\ fn.sent = FALSE
  /\ LET queryArgs == Slice(fn.queries, SliceEnd)
     IN fn' = [fn EXCEPT !.sent = TRUE,
                         !.declared = SEARCH_ATOMS(queryArgs),
                         !.built = Len(queryArgs),
                         !.vars = Vars(fn.queries)]
  /\ UNCHANGED <<build, now, uuids, tr, server_transport, transports, streamable,
                 inflight, terminated, last, sse, call, proc, mgr>>

\* ------------------------------------------------------ removeEmptyFields
\* (src/operations/get-triples-by-id.ts)
\* a JSON-like value: an atom, an array of values, or an object whose keys
\* are drawn from 1..MaxLen
Atoms == {"null", "undefined", "", "text", "0", "false"}

Atom(x) == [k |-> "atom", v |-> x, c |-> <<>>]
Arr(items) == [k |-> "arr", v |-> "", c |-> items]
Obj(props) == [k |-> "obj", v |-> "", c |-> props]

Null == Atom("null")
Undefined == Atom("undefined")

Keep_truthy(item) ==
  /\ item.k = "atom" => item.v = "text"
  /\ ~(item.k = "arr" /\ DOMAIN item.c = {})

\* the test both the array filter and the object loop apply to a processed value
Keep(item) ==
  /\ item # Undefined
  /\ item # Null
  /\ item # Atom("")
  /\ ~(item.k = "arr" /\ DOMAIN item.c = {})

RECURSIVE removeEmptyFields(_)
removeEmptyFields(obj) ==
  IF obj = Null \/ obj = Undefined THEN obj
  ELSE IF obj.k = "arr"
    THEN Arr(SelectSeq([i \in DOMAIN obj.c |-> removeEmptyFields(obj.c[i])], Keep))
  ELSE IF obj.k = "obj"
    THEN LET processedValue == [key \in DOMAIN obj.c |-> removeEmptyFields(obj.c[key])]
             kept == {key \in DOMAIN obj.c : Keep(processedValue[key])}
             result == [key \in kept |-> processedValue[key]]
         IN IF kept # {} THEN Obj(result) ELSE Undefined
  ELSE obj

\* the values the function is applied to: containers of one element nested up
\* to three deep, and arrays / objects of up to MaxLen elements
Unary(S) ==
  S \cup {Arr(<<>>), Obj(<<>>)} \cup {Arr(<<x>>) : x \in S}
    \cup {Obj([key \in {1} |-> x]) : x \in S}

Leaves == {Atom(x) : x \in Atoms}

Nested == Unary(Unary(Unary(Leaves)))

Wide ==
  LET S == Unary(Leaves)
  IN {Arr(s) : s \in UNION {[1..n -> S] : n \in 0..MaxLen}}
       \cup {Obj(f) : f \in UNION {[keys -> S] : keys \in SUBSET (1..MaxLen)}}

Values == Nested \cup Wide

Clean ==
  /\ fn.op = "removeEmptyFields"
  /\ fn.applied = FALSE
  /\ fn' = [fn EXCEPT !.applied = TRUE,
                      !.out = removeEmptyFields(fn.obj),
                      !.again = removeEmptyFields(removeEmptyFields(fn.obj))]
  /\ UNCHANGED <<build, now, uuids, tr, server_transport, transports, streamable,
                 inflight, terminated, last, sse, call, proc, mgr>>

\* ------------------------------------------------------- MCPClientManager
\* (src/unnamed/part_004)
Callers == 1..MaxCallers
ManagerOps == {"initialize", "listTools", "callTool"}
ToolOutcomes == {"content", "invalid", "Error", "reason"}

\* response.tools of the server: an empty array, or one with tools
\* (`cached`: this.tools.length > 0)
ToolLists == {"empty", "cached"}

Resting == [pc |-> "idle", op |-> "none", res |-> "none"]

\* the object after construction: initialized = false, tools = []
Manager ==
  [initialized |-> FALSE, tools |-> "empty", connects |-> 0,
   c |-> [c \in Callers |-> Resting]]

Resolve(c, res) == [mgr EXCEPT !.c[c].pc = "done", !.c[c].res = res]

\* a promise of the caller that rejects
Reject(c) == Resolve(c, "rejected")

\* the statement after `await this.initialize()` in the method the caller runs
AfterInitialize(m, c) ==
  IF m.c[c].op = "initialize" THEN [m EXCEPT !.c[c].pc = "done", !.c[c].res = "void"]
  ELSE IF m.c[c].op = "listTools" THEN [m EXCEPT !.c[c].pc = "list"]
  ELSE [m EXCEPT !.c[c].pc = "call"]

\* a method is called: initialize() itself, or the `if (!this.initialized)
\* await this.initialize()` that opens listTools and callTool; initialize
\* returns at once when the flag is set and calls client.connect otherwise
Invoke(c, op) ==
  /\ mgr.c[c].pc \in {"idle", "done"}
  /\ LET m == [mgr EXCEPT !.c[c] = [pc |-> "idle", op |-> op, res |-> "none"]]
     IN IF mgr.initialized
          THEN mgr' = AfterInitialize(m, c)
          ELSE /\ mgr.connects < MaxConnects
               /\ mgr' = [m EXCEPT !.c[c].pc = "connect", !.connects = @ + 1]
  /\ UNCHANGED <<build, now, uuids, tr, server_transport, transports, streamable,
                 inflight, terminated, last, sse, call, proc, fn>>

\* `await this.client.connect(this.transport)` settles; the catch of
\* initialize rethrows
ConnectDone(c, ok) ==
  /\ mgr.c[c].pc = "connect"
  /\ mgr' = IF ok THEN [mgr EXCEPT !.c[c].pc = "tools"] ELSE Reject(c)
  /\ UNCHANGED <<build, now, uuids, tr, server_transport, transports, streamable,
                 inflight, terminated, last, sse, call, proc, fn>>

\* `await this.client.listTools()` of initialize settles: the tools are stored
\* and the flag is set, then the calling method goes on
ToolsDone(c, ok) ==
  /\ mgr.c[c].pc = "tools"
  /\ IF ok
     THEN \E tools \in ToolLists :
            mgr' = AfterInitialize([mgr EXCEPT !.tools = tools, !.initialized = TRUE], c)
     ELSE mgr' = Reject(c)
  /\ UNCHANGED <<build, now, uuids, tr, server_transport, transports, streamable,
                 inflight, terminated, last, sse, call, proc, fn>>

\* the try block of listTools: a failure falls back to the cached tools when
\* there are any and is rethrown otherwise
ListDone(c, ok) ==
  /\ mgr.c[c].pc = "list"
  /\ IF ok
     THEN \E tools \in ToolLists : mgr' = [Resolve(c, "tools") EXCEPT !.tools = tools]
     ELSE mgr' = IF mgr.tools = "cached" THEN Resolve(c, "cachedTools") ELSE Reject(c)
  /\ UNCHANGED <<build, now, uuids, tr, server_transport, transports, streamable,
                 inflight, terminated, last, sse, call, proc, fn>>

\* the try block of callTool: the content array of a well-formed response,
\* one text item with the message for anything thrown
CallDone(c, outcome) ==
  /\ mgr.c[c].pc = "call"
  /\ mgr' = IF outcome = "content" THEN Resolve(c, "content") ELSE Resolve(c, "errorItem")
  /\ UNCHANGED <<build, now, uuids, tr, server_transport, transports, streamable,
                 inflight, terminated, last, sse, call, proc, fn>>

\* cleanup(): transport.close(), then initialized = false
Cleanup(ok) ==
  /\ mgr' = [mgr EXCEPT !.connects = 0,
                        !.initialized = IF ok THEN FALSE ELSE @]
  /\ UNCHANGED <<build, now, uuids, tr, server_transport, transports, streamable,
                 inflight, terminated, last, sse, call, proc, fn>>

\* ---------------------------------------------------------- specification
Init ==
  /\ build \in Builds
  /\ now = 0
  /\ uuids = 0
  /\ tr = <<>>
  /\ server_transport = NoTransport
  /\ transports = <<>>
  /\ streamable = <<>>
  /\ inflight = [i \in Slots |-> Idle]
  /\ terminated = {}
  /\ last = NoStep
  /\ sse = <<>>
  /\ call = NoCall
  /\ proc = Serving
  /\ fn = NoFn
  /\ mgr = Manager

Next ==
  \/ \E i \in Slots, sessionId \in {NoSessionId} \cup ClientIds, body \in Bodies,
        throws \in BOOLEAN : PostMcp(i, sessionId, body, throws)
  \/ \E i \in Slots, throws \in BOOLEAN : HandleNew(i, throws)
  \/ \E i \in Slots : Reply(i)
  \/ \E i \in Slots, sessionId \in {NoSessionId} \cup ClientIds, ok \in BOOLEAN :
        DeleteMcp(i, sessionId, ok)
  \/ \E i \in Slots : DeleteMcpDone(i)
  \/ \E t \in 1..MaxTransports : TransportClose(t)
  \/ \E i \in Slots, method \in Methods, sessionId \in {NoSessionId} \cup ClientIds,
        body \in Bodies, throws \in BOOLEAN : AllMcp(i, method, sessionId, body, throws)

Spec == Init /\ [][Next]_vars

\* the legacy SSE endpoints of build 2
SseInit == Init /\ build = 2

SseNext ==
  \/ \E throws \in BOOLEAN : GetSse(throws)
  \/ \E t \in 1..MaxTransports : ResClose(t)
  \/ \E i \in Slots, sessionId \in {NoSessionId} \cup ClientIds, throws \in BOOLEAN :
        PostMessages(i, sessionId, throws)
  \/ \E i \in Slots : Reply(i)

SseSpec == SseInit /\ [][SseNext]_vars

\* the tool-call handler of the shared server
DispatchNext ==
  \/ \E name \in ToolNames, raw \in ArgKinds : CallTool(name, raw)
  \/ \E outcome \in RemoteOutcomes : ExecuteDone(outcome)
  \/ ListTools

DispatchSpec == Init /\ [][DispatchNext]_vars

\* the process from its start to its exit
LifeInit ==
  /\ build \in Builds
  /\ now = 0
  /\ uuids = 0
  /\ tr = <<>>
  /\ server_transport = NoTransport
  /\ transports = <<>>
  /\ streamable = <<>>
  /\ inflight = [i \in Slots |-> Idle]
  /\ terminated = {}
  /\ last = NoStep
  /\ sse = <<>>
  /\ call = NoCall
  /\ \E env \in EnvValues : proc = Process(env)
  /\ fn = NoFn
  /\ mgr = Manager

LifeNext ==
  \/ Boot
  \/ \E c \in Conns : Accept(c)
  \/ \E c \in Conns : Request(c)
  \/ \E c \in Conns : Respond(c)
  \/ \E c \in Conns : Disconnect(c)
  \/ \E closeIdle \in BOOLEAN : Sigterm(closeIdle)
  \/ ListenerClosed
  \/ TimerFires

\* a timer that is armed fires unless the process has exited: the handler leaves
\* it referenced and nothing clears it
LifeSpec == LifeInit /\ [][LifeNext]_vars /\ WF_vars(TimerFires)

\* the variables atomSearchOperation sends with its query
AtomsInit ==
  /\ build \in Builds
  /\ now = 0
  /\ uuids = 0
  /\ tr = <<>>
  /\ server_transport = NoTransport
  /\ transports = <<>>
  /\ streamable = <<>>
  /\ inflight = [i \in Slots |-> Idle]
  /\ terminated = {}
  /\ last = NoStep
  /\ sse = <<>>
  /\ call = NoCall
  /\ proc = Serving
  /\ mgr = Manager
  /\ \E queries \in SearchArgs :
       fn = [op |-> "search_atoms", queries |-> queries, sent |-> FALSE,
             declared |-> {}, built |-> 0, vars |-> <<>>]

AtomsNext == AtomSearch

AtomsSpec == AtomsInit /\ [][AtomsNext]_vars

\* removeEmptyFields applied to a value
CleanInit ==
  /\ build \in Builds
  /\ now = 0
  /\ uuids = 0
  /\ tr = <<>>
  /\ server_transport = NoTransport
  /\ transports = <<>>
  /\ streamable = <<>>
  /\ inflight = [i \in Slots |-> Idle]
  /\ terminated = {}
  /\ last = NoStep
  /\ sse = <<>>
  /\ call = NoCall
  /\ proc = Serving
  /\ mgr = Manager
  /\ \E obj \in Values :
       fn = [op |-> "removeEmptyFields", obj |-> obj, applied |-> FALSE,
             out |-> Undefined, again |-> Undefined]

CleanNext == Clean

CleanSpec == CleanInit /\ [][CleanNext]_vars

\* the callers of one MCPClientManager
MgrNext ==
  \/ \E c \in Callers, op \in ManagerOps : Invoke(c, op)
  \/ \E c \in Callers, ok \in BOOLEAN : ConnectDone(c, ok)
  \/ \E c \in Callers, ok \in BOOLEAN : ToolsDone(c, ok)
  \/ \E c \in Callers, ok \in BOOLEAN : ListDone(c, ok)
  \/ \E c \in Callers, outcome \in ToolOutcomes : CallDone(c, outcome)
  \/ \E ok \in BOOLEAN : Cleanup(ok)

MgrSpec == Init /\ [][MgrNext]_vars


\* ================================================================ claims
\* a POST /mcp step whose mcp-session-id header is a non-empty id that is not a key
UnknownSessionPost ==
  last.op = "POST" /\ last.sid # NoSessionId /\ ~last.known

\* C1: a POST /mcp whose mcp-session-id is a non-empty id that is not a key of the
\* session table is answered 401 with the JSON-RPC error {code: -32001, message:
\* 'Invalid session, please reinitialize', id: null}; it is handed to no transport,
\* adds no entry under that id and leaves the whole session table unchanged.
C1_UnknownSessionRejected ==
  UnknownSessionPost =>
    /\ last.fin
    /\ last.status = 401
    /\ last.code = InvalidSessionCode
    /\ last.text = "Invalid session, please reinitialize"
    /\ last.id = "null"
    /\ last.t = NoTransport
    /\ ~last.after
    /\ last.tableSame
    /\ last.created = 0

\* a POST /mcp without session header and with an initialize body whose handler has
\* returned (it did not end in the catch block)
InitHandled ==
  /\ last.op = "POST" /\ last.sid = NoSessionId /\ last.body = "initialize"
  /\ last.fin /\ last.status # 500

\* C2: after a POST /mcp without mcp-session-id and with an initialize body has been
\* handled, the table has an entry keyed by the newly generated session id (holding
\* the new transport), and a POST carrying a registered id is forwarded to that
\* entry's transport instead of being rejected as an invalid session.
C2_InitRegistersSession ==
  /\ InitHandled => (last.session # NoSessionId /\ last.reg)
  /\ (last.op = "POST" /\ last.known) =>
        (last.status # 401 /\ last.t # NoTransport /\ last.t = last.owner)

\* C3: a request carrying A's session id is handled only by the transport stored
\* under A, and its reply, when one is sent, goes through A's transport and never
\* through another session's transport.
C3_RepliesThroughOwnTransport ==
  /\ (last.op = "POST" /\ last.known) => last.t = last.owner
  /\ (last.op = "reply" /\ last.sid # NoSessionId /\ last.via # NoTransport) =>
        last.via = last.t

\* a DELETE /mcp that found its session in the table and whose handler has ended
DeleteOfSessionEnded ==
  last.op = "DELETE" /\ last.fin /\ last.t # NoTransport

\* C4 as stated: a DELETE /mcp whose id is a key of the table closes the transport,
\* removes the entry and answers 200 'Session terminated'; every later POST with
\* that id is answered 401.
C4_DeleteAnswers200 ==
  /\ DeleteOfSessionEnded =>
        /\ last.status = 200 /\ last.text = "Session terminated"
        /\ tr[last.t].closed
        /\ ~last.after
  /\ (last.op = "POST" /\ last.sid \in terminated) => last.status = 401

\* C4 amended: a DELETE /mcp whose id is a key of the table calls close() on that
\* session's transport and removes the entry whether close() returns or throws;
\* it answers 200 'Session terminated' exactly when close() returned (then the
\* transport is closed); when close() threw, the answer is the error middleware's
\* 500 or none. The entry stays removed, and every later POST with that id is
\* answered 401 with code -32001.
C4_DeleteRemovesSession ==
  /\ DeleteOfSessionEnded =>
        /\ ~last.after
        /\ last.sid \in terminated
        /\ IF last.closedT = last.t
           THEN /\ last.status = 200 /\ last.text = "Session terminated"
                /\ tr[last.t].closed
           ELSE last.status \in {NoResponse, 500}
  /\ terminated \cap Keys = {}
  /\ (last.op = "POST" /\ last.sid \in terminated) =>
        (last.status = 401 /\ last.code = InvalidSessionCode)

\* C4 witness: a POST arrived with the id of a session that a DELETE, answered 200,
\* had terminated, and was rejected
C4_Witness ==
  /\ last.op = "POST" /\ last.sid \in terminated /\ last.status = 401
  /\ \E t \in 1..Len(tr) : tr[t].sessionId = last.sid /\ tr[t].closed

\* C5 (app.delete('/mcp'), lines 318-329): a DELETE /mcp for an id that is not in
\* the table (already closed, never created) or without mcp-session-id does not
\* throw, answers 200 'Session terminated', calls no close() and leaves the session
\* table exactly as it was.
C5_IdempotentClose ==
  (build = 1 /\ last.op = "DELETE" /\ last.t = NoTransport) =>
    /\ ~last.known
    /\ last.fin
    /\ last.status = 200 /\ last.text = "Session terminated"
    /\ last.closedT = NoTransport
    /\ last.tableSame
    /\ last.bindSame

\* C6: the table never keeps an entry whose transport is closed, other than while
\* the DELETE handler that closed it is about to remove it.
C6_NoClosedTransportInTable ==
  \A k \in DOMAIN transports :
    tr[transports[k].transport].closed =>
      \E i \in Slots : inflight[i].pc = "close" /\ inflight[i].sid = k

\* C7: a POST /mcp without mcp-session-id whose body is not an initialization
\* message is rejected with a bad-request error, adds no entry to the table and
\* does not change which transport the shared server is bound to.
C7_NonInitWithoutSessionRejected ==
  (last.op = "POST" /\ last.sid = NoSessionId /\ last.body = "call") =>
    /\ last.tableSame
    /\ last.bindSame
    /\ last.fin => last.status = 400

\* a POST /mcp step carrying a registered id and an initialize body
InitOnRegistered ==
  last.op = "POST" /\ last.known /\ last.body = "initialize"

\* C8: a POST /mcp carrying a registered session id and an initialization body is
\* forwarded to the existing session's transport: no transport is created, no
\* session id is generated and the table has the same keys afterwards.
C8_InitOnExistingSession ==
  InitOnRegistered =>
    /\ last.t = last.owner
    /\ last.t # NoTransport
    /\ last.created = 0
    /\ last.ids = 0
    /\ last.keysSame
    /\ last.session = NoSessionId

\* C8 witness: the existing transport received the initialize message (and refused
\* it as already initialized)
C8_Witness ==
  InitOnRegistered /\ last.fin /\ last.status = 400

\* C9: every handled initialization request generates one new session id and adds
\* exactly one entry under it, overwriting no other entry; so N handled requests
\* leave N distinct ids, and N entries while none is removed.
C9_OneSessionPerInit ==
  /\ InitHandled => (last.ids = 1 /\ last.grew)
  /\ \A k \in Keys : tr[Table[k]].sessionId = k
  /\ terminated = {} => Cardinality(Keys) = uuids

\* C10: for every entry createdAt <= lastActivity.
C10_CreatedBeforeActivity ==
  \A k \in DOMAIN transports :
    transports[k].createdAt <= transports[k].lastActivity

\* a reply step: the handler of a dispatched request has returned its result
CallCompleted == last.op = "reply" /\ last.fin

\* a step takes a pending request away only by completing it
OnlyCompletionEnds ==
  \A i \in Slots :
    (inflight[i].pc = "call" /\ inflight'[i] # inflight[i]) =>
      (inflight'[i] = Idle /\ last'.op = "reply" /\ last'.sid = inflight[i].sid)

\* C11 (app.delete('/mcp') of build 1): closing a session while one of its requests
\* is suspended in its handler does not abort it: no step but its own completion
\* removes a pending request, its completion stays possible whatever happened to
\* the session table, and every POST that arrives with the id after the DELETE
\* handler has finished is answered 401 / -32001 and handed to no transport.
C11_CloseKeepsInflightCall ==
  /\ [](\A i \in Slots : inflight[i].pc = "call" => ENABLED Reply(i))
  /\ [][OnlyCompletionEnds]_vars
  /\ []((last.op = "POST" /\ last.sid \in terminated) =>
          (last.status = 401 /\ last.code = InvalidSessionCode
           /\ last.t = NoTransport))

\* C11 witness: a request sent with a session's id completed after that session
\* was deleted and its transport closed
C11_Witness ==
  /\ CallCompleted /\ last.sid \in terminated /\ last.sid \notin Keys
  /\ tr[last.t].closed

\* C20: GET /sse registers the new transport under its own session id, the entry is
\* removed when the connection closes, a POST /messages whose sessionId is not
\* registered is answered 400 and creates no entry, and one whose sessionId is
\* registered is handed to the transport stored under that id only.
C20_SseTableDiscipline ==
  /\ last.op = "GET /sse" => (last.session # NoSessionId /\ last.reg)
  /\ \A k \in DOMAIN sse : ~tr[sse[k]].closed /\ tr[sse[k]].sessionId = k
  /\ (last.op = "POST /messages" /\ ~last.known) =>
        (last.status = 400 /\ last.tableSame /\ last.t = NoTransport)
  /\ (last.op = "POST /messages" /\ last.known) => last.t = last.owner

\* the handler has returned a result for the request in `call`
Returns == call.pc = "returned"

TextItems(r) == {k \in 1..Len(r.content) : r.content[k].type = "text"}

\* C12: for every tool name, every arguments value and every outcome of the
\* operation, the tool-call handler returns a result whose content is a non-empty
\* array of items, and no exception leaves it.
C12_HandlerTotal ==
  /\ call.pc # "threw"
  /\ Returns =>
       /\ Len(call.result.content) >= 1
       /\ \A k \in 1..Len(call.result.content) :
            call.result.content[k].type \in {"text", "resource"}

\* C12 witness: the operation threw and the handler returned an error result
C12_Witness ==
  Returns /\ call.handler.threw /\ call.result.content[1].text[1] = "Error: "

\* C13: a call whose arguments are absent or {} returns, for every tool name, the
\* error result saying that arguments are required, and runs neither a schema
\* validation nor a handler.
C13_ArgumentsRequired ==
  (Returns /\ call.raw \in {"absent", "empty"}) =>
    /\ call.result.content = <<Text(<<"Error: ", "Arguments are required">>)>>
    /\ call.parses = 0
    /\ call.executes = 0

\* a call with present arguments whose name is no case label
UnknownToolCall == Returns /\ call.raw # "absent" /\ call.name \notin Cases

\* C14: a call with present arguments and a name that matches no registered tool
\* returns a result whose single item is the text 'Error: Unknown tool: <name>',
\* and no handler is invoked.
C14_UnknownTool ==
  UnknownToolCall =>
    /\ call.result.content = <<Text(<<"Error: ", "Unknown tool: ", call.name>>)>>
    /\ call.executes = 0
    /\ call.parses = 0

\* C14 witness: a tool that only the later build registers, called in build 1
C14_Witness ==
  UnknownToolCall /\ call.name = "get_outgoing_edges" /\ call.raw = "valid"

\* C15: when the arguments of a registered tool fail its schema, the result has
\* isError true and a text that starts with 'Validation Error:'.
C15_ValidationError ==
  (Returns /\ call.zod) =>
    /\ call.result.isError = "true"
    /\ call.result.content[1].text[1] = "Validation Error: "

\* a call to a registered operation whose arguments passed its schema
ValidatedCall ==
  /\ call.pc # "idle" /\ call.name \in Cases \cap Operations
  /\ call.parses = 1 /\ ~call.zod

\* C16: when the arguments of a registered operation pass validation, execute is
\* called once with the parse result; while it is awaited no result exists; and
\* what execute returns is returned unchanged.
C16_ExecuteOnceUnchanged ==
  /\ call.executes <= 1
  /\ ValidatedCall =>
       /\ call.executes = 1
       /\ call.passed = call.validated
       /\ call.pc = "executing" => call.result = NoResult
       /\ (Returns /\ ~call.handler.threw) => call.result = call.handler.result

\* C16 witness: arguments with an unknown key were validated, and the error-flagged
\* result of search_lists came back as it was
C16_Witness ==
  /\ ValidatedCall /\ Returns /\ call.raw = "extra" /\ call.name = "search_lists"
  /\ call.result.isError = "true"

\* C17: no returned result has a text item that holds a stack trace.
C17_NoStackTrace ==
  Returns =>
    \A k \in TextItems(call.result) :
      \A j \in 1..Len(call.result.content[k].text) :
        call.result.content[k].text[j] # "error.stack"

\* the module body has run
Booted == proc.mode # "none"

\* C18: the HTTP server is started exactly when SERVER_MODE is 'http', the stdio
\* server for every other value and when it is unset; never both.
C18_OneTransportMode ==
  /\ ~(proc.http # "off" /\ proc.stdio)
  /\ Booted =>
       /\ (proc.http # "off") <=> (proc.env = "http")
       /\ proc.stdio <=> (proc.env # "http")

\* C18 witness: a value that differs from 'http' by case only started stdio
C18_Witness ==
  Booted /\ proc.env = "HTTP" /\ proc.stdio /\ proc.http = "off"

\* SIGTERM has been handled in HTTP mode
ShuttingDown == proc.mode = "http" /\ proc.sigterms > 0

\* C19: in HTTP mode, after SIGTERM the listener accepts no new connection and the
\* process eventually exits: with code 0 when the listener closed before a timer
\* fired, with code 1 when a timer fired first; it never runs on after a timer fired.
C19_ShutdownExits ==
  /\ [](ShuttingDown => proc.http # "listening")
  /\ [][ShuttingDown =>
          \A c \in Conns : proc.conns[c] = "none" => proc'.conns[c] = "none"]_vars
  /\ [](proc.exit = "0" => (proc.http = "closed" /\ ~proc.fired))
  /\ [](proc.exit = "1" => proc.fired)
  /\ [](proc.fired => proc.exit # "running")
  /\ (ShuttingDown ~> proc.exit \in {"0", "1"})

\* C19 witness: the timer fired while a request was still being served
C19_Witness ==
  /\ ShuttingDown /\ proc.exit = "1"
  /\ \E c \in Conns : proc.conns[c] = "busy"

\* a POST /mcp whose step issued a session id in its response
IssuesSession == last.op = "POST" /\ last.session # NoSessionId

\* the ids the server has issued so far
Issued == {tr[t].sessionId : t \in 1..Len(tr)} \ {NoSessionId}

\* C21: when a session is created, its entry is in the session table before the
\* response that carries the new id is delivered: the step that issues the id
\* leaves it registered for the new transport, every issued id is a key of the
\* table until a DELETE terminates it, and a POST that presents an issued id
\* that was not terminated finds it.
C21_RegisteredBeforeResponse ==
  /\ IssuesSession => last.reg
  /\ Issued \subseteq Keys \cup terminated
  /\ (last.op = "POST" /\ last.sid \in Issued \ terminated) => last.known

\* C21 witness: a client presented an id the server had issued and was routed
\* to the session's transport
C21_Witness ==
  /\ last.op = "POST" /\ last.sid \in Issued /\ last.known
  /\ last.status = 200 /\ last.t = last.owner

\* C23: every POST /mcp gets an HTTP response: 500 'Failed to handle connection'
\* when handling threw before one was sent; no handler ends without a response.
C23_PostAnswered ==
  (last.op = "POST" /\ last.fin) => last.status # NoResponse

\* a DELETE /mcp of a registered session whose close() threw
DeleteCloseThrew == DeleteOfSessionEnded /\ last.closedT = NoTransport

\* C24: when closing the transport of a registered session throws in DELETE
\* /mcp, the entry is removed all the same: the id is no key of the table and
\* a later POST with it is not routed.
C24_FailedCloseRemovesEntry ==
  /\ DeleteCloseThrew => (~last.after /\ last.sid \notin Keys)
  /\ (last.op = "POST" /\ last.sid \in terminated) => (~last.known /\ last.t = NoTransport)

C24_Witness ==
  /\ DeleteCloseThrew
  /\ last.known /\ ~last.after
  /\ ~tr[last.t].closed

\* C25: for DELETE /mcp requests of one registered session that interleave,
\* close() is invoked at most once on the session's transport, the entry ends
\* up removed and every DELETE whose close() returned is answered 200.
C25_CloseAtMostOnce ==
  /\ \A i, j \in Slots :
       (inflight[i].pc = "close" /\ inflight[j].pc = "close"
          /\ inflight[i].t = inflight[j].t) => i = j
  /\ (DeleteOfSessionEnded /\ last.closedT = last.t) =>
        (last.status = 200 /\ ~last.after)

\* C22: for every registered tool the raw arguments are validated before the
\* handler runs: execute is invoked only after a parse that succeeded, on
\* arguments that satisfy the schema, and a failed validation invokes no
\* execute (so no remote API request) and ends the call.
C22_ValidationBeforeExecute ==
  /\ call.executes = 1 =>
        /\ call.parses = 1 /\ ~call.zod
        /\ call.raw \notin {"absent", "invalid"}
        /\ call.raw = "empty" => call.name \in Unlisted
        /\ call.validated \in {"valid", "empty"}
  /\ call.zod =>
        /\ call.parses = 1 /\ call.executes = 0
        /\ call.handler = NoCompletion
        /\ call.pc = "returned"

C22_Witness ==
  /\ call.zod /\ call.raw = "invalid" /\ call.name \in Cases \cap Operations
  /\ call.executes = 0 /\ call.pc = "returned"

\* the names the list-tools handler returns
Registry == {TOOLS[k] : k \in DOMAIN TOOLS}

\* C26: the registry and the dispatcher agree: every listed name is a case of
\* the switch and never yields 'Unknown tool', every case is listed, and every
\* call of list-tools returns the same list.
C26_RegistryMatchesSwitch ==
  /\ Registry = Cases
  /\ call.lists \subseteq {TOOLS}
  /\ \A l \in call.lists :
       (Returns /\ call.name \in {l[k] : k \in DOMAIN l}) =>
          call.result.content # <<Text(<<"Error: ">> \o UnknownTool(call.name))>>
  /\ (Returns /\ call.raw # "absent" /\ call.name \notin Registry) =>
          call.result.content = <<Text(<<"Error: ">> \o UnknownTool(call.name))>>

C26_Witness ==
  /\ call.lists = {TOOLS}
  /\ Returns /\ call.name \in Registry /\ call.executes = 1

\* search_atoms has been executed on the arguments in `fn`
SearchSent == fn.op = "search_atoms" /\ fn.sent

\* C27: the variables search_atoms sends are exactly the like<i>Str variables
\* its generated query declares; the query is built from at most the first
\* five queries and no variable is sent for a query that was cut off.
C27_VarsMatchQuery ==
  SearchSent =>
    /\ fn.built <= SliceEnd
    /\ fn.declared = {Like(i) : i \in 0..(fn.built - 1)}
    /\ DOMAIN fn.vars = fn.declared

\* removeEmptyFields has been applied to the value in `fn`
Cleaned == fn.op = "removeEmptyFields" /\ fn.applied

\* an element or property value the function is meant to remove
Empty(e) ==
  \/ e \in {Null, Undefined, Atom("")}
  \/ e.k \in {"arr", "obj"} /\ DOMAIN e.c = {}

RECURSIVE NoEmpty(_)
NoEmpty(v) ==
  v.k = "atom" \/ \A key \in DOMAIN v.c : ~Empty(v.c[key]) /\ NoEmpty(v.c[key])

\* how many times the atom x occurs in v, at any depth
RECURSIVE Count(_, _), CountIn(_, _, _)
Count(v, x) ==
  IF v.k = "atom" THEN (IF v.v = x THEN 1 ELSE 0) ELSE CountIn(v, DOMAIN v.c, x)

CountIn(v, keys, x) ==
  IF keys = {} THEN 0
  ELSE LET key == CHOOSE q \in keys : TRUE
       IN Count(v.c[key], x) + CountIn(v, keys \ {key}, x)

\* C28: in the value removeEmptyFields returns, no property and no array
\* element at any depth is null, undefined, "", [] or {}; every 0 and every
\* false of the input is kept; applying the function to its own output
\* returns that output.
C28_RemoveEmptyFields ==
  Cleaned =>
    /\ NoEmpty(fn.out)
    /\ \A x \in {"0", "false", "text"} : Count(fn.out, x) = Count(fn.obj, x)
    /\ fn.again = fn.out

C28_Witness ==
  /\ Cleaned
  /\ fn.obj.k = "arr" /\ Len(fn.obj.c) = 2
  /\ fn.obj.c[1] = Obj(<<Atom("")>>)
  /\ fn.obj.c[2] = Arr(<<Atom("0")>>)
  /\ fn.out = Arr(<<Arr(<<Atom("0")>>)>>)

\* C29: between two calls of cleanup() the client is connected at most once,
\* whatever the interleaving of initialize, listTools and callTool.
C29_ConnectsOnce == mgr.connects <= 1

\* C30: callTool never rejects: it resolves to the content array of the
\* response, or to one text item with the error message when anything failed,
\* a failed initialization included.
C30_CallToolNeverRejects ==
  \A c \in Callers :
    (mgr.c[c].op = "callTool" /\ mgr.c[c].pc = "done") =>
       mgr.c[c].res \in {"content", "errorItem"}

====
